---------------------------- MODULE Spec2Model ----------------------------
(***************************************************************************)
(* A model of package reclist (js-arias/reclist): the Record type, the     *)
(* Scanner that decodes reclist text and the Writer that encodes records.  *)
(*                                                                         *)
(* Text is a sequence of one-character strings.  The model alphabet is a   *)
(* finite part of ASCII that contains every character the code tests for   *)
(* (@ = : # " \ and the white space characters) and a few letters.         *)
(***************************************************************************)
EXTENDS Integers, Sequences, FiniteSets, TLC

VARIABLES
    doc,      \* the pieces the input text was assembled from
    s,        \* the Scanner that reads the input text
    recs,     \* the records the caller got from s.Record()
    rec,      \* the Record the caller builds with NewRecord and Set
    calls,    \* the Set calls made on rec, in order
    w,        \* the Writer: bufio buffer and underlying sink
    s2,       \* the Scanner that reads what the Writer flushed
    recs2,    \* the records the caller got from s2.Record()
    pc        \* the caller's position

vars == <<doc, s, recs, rec, calls, w, s2, recs2, pc>>

-----------------------------------------------------------------------------
(* Characters and the string functions of the Go library the code calls.   *)

\* unicode.IsSpace, restricted to the model alphabet.
IsSpace(c) == c \in {" ", "\t", "\n", "\r"}

\* The byte value of a character: sort.Strings compares strings bytewise.
Code(c) ==
    CASE c = "\t" -> 9   [] c = "\n" -> 10  [] c = "\r" -> 13
      [] c = " "  -> 32  [] c = "\"" -> 34  [] c = "#"  -> 35
      [] c = "-"  -> 45
      [] c = ":"  -> 58  [] c = "="  -> 61  [] c = "@"  -> 64
      [] c = "A"  -> 65  [] c = "B"  -> 66  [] c = "K"  -> 75
      [] c = "\\" -> 92
      [] c = "a"  -> 97  [] c = "b"  -> 98  [] c = "c"  -> 99
      [] c = "i"  -> 105 [] c = "k"  -> 107 [] c = "t"  -> 116
      [] c = "v"  -> 118 [] c = "x"  -> 120 [] c = "y"  -> 121

\* strings.ToLower on one character.
LowerRune(c) ==
    CASE c = "A" -> "a" [] c = "B" -> "b" [] c = "K" -> "k" [] OTHER -> c

\* strings.ToLower.
ToLower(str) == [i \in 1..Len(str) |-> LowerRune(str[i])]

RECURSIVE TrimLeft(_)
TrimLeft(str) ==
    IF str # <<>> /\ IsSpace(Head(str)) THEN TrimLeft(Tail(str)) ELSE str

RECURSIVE TrimRight(_)
TrimRight(str) ==
    IF str # <<>> /\ IsSpace(str[Len(str)])
    THEN TrimRight(SubSeq(str, 1, Len(str) - 1))
    ELSE str

\* strings.TrimSpace.
TrimSpace(str) == TrimRight(TrimLeft(str))

\* strings.Fields: the maximal runs of non-space characters of str.
RECURSIVE FieldsFrom(_, _, _)
FieldsFrom(str, word, acc) ==
    IF str = <<>>
    THEN IF word = <<>> THEN acc ELSE Append(acc, word)
    ELSE IF IsSpace(Head(str))
         THEN FieldsFrom(Tail(str), <<>>,
                         IF word = <<>> THEN acc ELSE Append(acc, word))
         ELSE FieldsFrom(Tail(str), Append(word, Head(str)), acc)

Fields(str) == FieldsFrom(str, <<>>, <<>>)

\* strings.Join.
RECURSIVE Join(_, _)
Join(words, sep) ==
    IF words = <<>> THEN <<>>
    ELSE IF Len(words) = 1 THEN words[1]
    ELSE words[1] \o sep \o Join(Tail(words), sep)

\* strings.Index for a one-character separator, 0-based, -1 when absent.
Index(str, c) ==
    IF \E i \in 1..Len(str) : str[i] = c
    THEN (CHOOSE i \in 1..Len(str) :
              str[i] = c /\ \A j \in 1..(i - 1) : str[j] # c) - 1
    ELSE -1

\* strings.Contains for a one-character substring.
Contains(str, c) == \E i \in 1..Len(str) : str[i] = c

\* a < b for strings, bytewise, as sort.Strings orders them.
RECURSIVE StrLess(_, _)
StrLess(a, b) ==
    IF b = <<>> THEN FALSE
    ELSE IF a = <<>> THEN TRUE
    ELSE IF Code(Head(a)) # Code(Head(b)) THEN Code(Head(a)) < Code(Head(b))
    ELSE StrLess(Tail(a), Tail(b))

-----------------------------------------------------------------------------
(* Record (src/unnamed/part_000).                                          *)

\* The nil *Record.
NilRecord == [isNil |-> TRUE]

\* An empty map[string]string.
EmptyData == [k \in {} |-> <<>>]

\* The normalisation NewRecord applies to typ and Get and Set to key.
NormKey(key) == ToLower(Join(Fields(key), <<"-">>))

\* The normalisation NewRecord applies to ID.
NormID(ID) == Join(Fields(ID), <<" ">>)

\* Mutant of NewRecord: an empty ID is accepted.
NewRecordKeepsEmptyID(typ, ID) ==
    IF NormKey(typ) = <<>> THEN NilRecord
    ELSE [id |-> NormID(ID), typ |-> NormKey(typ), data |-> EmptyData]

NewRecord(typ, ID) ==
    IF NormKey(typ) = <<>> THEN NilRecord
    ELSE IF NormID(ID) = <<>> THEN NilRecord
    ELSE [id |-> NormID(ID), typ |-> NormKey(typ), data |-> EmptyData]

\* sort.Strings on a set of keys: the ascending sequence of its elements.
RECURSIVE SortStrings(_)
SortStrings(ks) ==
    IF ks = {} THEN <<>>
    ELSE LET m == CHOOSE k \in ks : \A o \in ks \ {k} : StrLess(k, o)
         IN  <<m>> \o SortStrings(ks \ {m})

\* Mutant of Keys: the keys in descending order.
KeysDescending(r) ==
    [i \in 1..Cardinality(DOMAIN r.data) |->
         SortStrings(DOMAIN r.data)[Cardinality(DOMAIN r.data) + 1 - i]]

\* Record.Keys.
Keys(r) == SortStrings(DOMAIN r.data)

Get(r, key) ==
    IF NormKey(key) \in DOMAIN r.data THEN r.data[NormKey(key)] ELSE <<>>

\* The map after delete(r.data, key).
Delete(data, key) == [k \in DOMAIN data \ {key} |-> data[k]]

\* The map after r.data[key] = value.
Store(data, key, value) ==
    [k \in DOMAIN data \cup {key} |-> IF k = key THEN value ELSE data[k]]

\* Mutant of Set: a blank value is stored, not deleted.
SetStoresEmpty(r, key, value) ==
    IF NormKey(key) = <<>> THEN r
    ELSE [r EXCEPT !.data = Store(r.data, NormKey(key), TrimSpace(value))]

\* Mutant of Set: the value is stored as given, not trimmed.
SetKeepsSpace(r, key, value) ==
    IF NormKey(key) = <<>> THEN r
    ELSE IF TrimSpace(value) = <<>>
         THEN [r EXCEPT !.data = Delete(r.data, NormKey(key))]
         ELSE [r EXCEPT !.data = Store(r.data, NormKey(key), value)]

Set(r, key, value) ==
    IF NormKey(key) = <<>> THEN r
    ELSE IF TrimSpace(value) = <<>>
         THEN [r EXCEPT !.data = Delete(r.data, NormKey(key))]
         ELSE [r EXCEPT !.data = Store(r.data, NormKey(key), TrimSpace(value))]

-----------------------------------------------------------------------------
(* bufio.Reader over the input text r; pos is the index of the next        *)
(* unread character.  The reader fails with io.EOF at the end of the text; *)
(* the mark Fault in the text is the place where the underlying io.Reader  *)
(* fails with another error, and goes on failing on every later read.      *)

\* The rune ReadRune returns together with an error.
NoRune == "NUL"

\* The place in the text where the underlying reader fails.
Fault == "FAULT"

ReadRune(r, pos) ==
    IF pos > Len(r)
    THEN [ch |-> NoRune, err |-> "EOF", pos |-> pos]
    ELSE IF r[pos] = Fault
    THEN [ch |-> NoRune, err |-> "fault", pos |-> pos]
    ELSE [ch |-> r[pos], err |-> "nil", pos |-> pos + 1]

\* bufio.Reader.ReadString(delim): the text up to and including the first
\* delim, or the text read before the reader failed and its error when
\* there is no delim.
ReadString(r, pos, delim) ==
    IF \E i \in pos..Len(r) : r[i] \in {delim, Fault}
    THEN LET i == CHOOSE i \in pos..Len(r) :
                      r[i] \in {delim, Fault}
                          /\ \A j \in pos..(i - 1) : r[j] \notin {delim, Fault}
         IN  IF r[i] = Fault
             THEN [str |-> SubSeq(r, pos, i - 1), err |-> "fault", pos |-> i]
             ELSE [str |-> SubSeq(r, pos, i), err |-> "nil", pos |-> i + 1]
    ELSE [str |-> SubSeq(r, pos, Len(r)), err |-> "EOF", pos |-> Len(r) + 1]

-----------------------------------------------------------------------------
(* Scanner (src/scanner.go).                                               *)

\* Mutant of readRune: \r\n is not folded.
readRuneNoFold(r, pos) == ReadRune(r, pos)

\* Scanner.readRune: one rune, with \r\n folded to \n.
readRune(r, pos) ==
    LET r1 == ReadRune(r, pos) IN
    IF r1.err = "nil" /\ r1.ch = "\r"
    THEN LET r2 == ReadRune(r, r1.pos) IN
         IF r2.err = "nil" /\ r2.ch # "\n"
         THEN [ch |-> "\r", err |-> "nil", pos |-> r1.pos]
         ELSE r2
    ELSE r1

\* Scanner.skip: the position after the first delim, or the end of input.
RECURSIVE skip(_, _, _)
skip(r, pos, delim) ==
    LET r1 == readRune(r, pos) IN
    IF r1.err # "nil" THEN r1.pos
    ELSE IF r1.ch = delim THEN r1.pos
    ELSE skip(r, r1.pos, delim)

\* One turn of the second loop of Scanner.parseKey, r1 being the rune read.
RECURSIVE parseKeyName(_, _, _, _, _)
keyNameRune(r, line, b, space, r1) ==
    IF r1.err # "nil"
    THEN [key |-> <<>>, delim |-> "", err |-> r1.err, pos |-> r1.pos, line |-> line]
    ELSE IF r1.ch = "\n"
    THEN [key |-> <<>>, delim |-> "\n", err |-> "nil", pos |-> r1.pos, line |-> line + 1]
    ELSE IF IsSpace(r1.ch)
    THEN parseKeyName(r, r1.pos, line, b, TRUE)
    ELSE IF r1.ch = ":"
    THEN [key |-> b, delim |-> ":", err |-> "nil", pos |-> r1.pos, line |-> line]
    ELSE parseKeyName(r, r1.pos, line,
                      (IF space THEN Append(b, "-") ELSE b) \o <<r1.ch>>, FALSE)

\* The second loop of Scanner.parseKey: the key's name up to its delimiter;
\* b is the scratch buffer.
parseKeyName(r, pos, line, b, space) ==
    keyNameRune(r, line, b, space, readRune(r, pos))

\* One turn of the first loop of Scanner.parseKey, r1 being the rune read.
RECURSIVE parseKey(_, _, _)
\* Mutant of keyRune: the @ that ends the fields is not unread.
keyRuneEatsAt(r, line, r1) ==
    IF r1.err # "nil"
    THEN [key |-> <<>>, delim |-> "", err |-> r1.err, pos |-> r1.pos, line |-> line]
    ELSE IF r1.ch = "\n" THEN parseKey(r, r1.pos, line + 1)
    ELSE IF IsSpace(r1.ch) THEN parseKey(r, r1.pos, line)
    ELSE IF r1.ch = "#" THEN parseKey(r, skip(r, r1.pos, "\n"), line + 1)
    ELSE IF r1.ch = "@"
    THEN [key |-> <<>>, delim |-> "@", err |-> "nil", pos |-> r1.pos, line |-> line]
    ELSE parseKeyName(r, r1.pos - 1, line, <<>>, FALSE)

keyRune(r, line, r1) ==
    IF r1.err # "nil"
    THEN [key |-> <<>>, delim |-> "", err |-> r1.err, pos |-> r1.pos, line |-> line]
    ELSE IF r1.ch = "\n" THEN parseKey(r, r1.pos, line + 1)
    ELSE IF IsSpace(r1.ch) THEN parseKey(r, r1.pos, line)
    ELSE IF r1.ch = "#" THEN parseKey(r, skip(r, r1.pos, "\n"), line + 1)
    ELSE IF r1.ch = "@"
    THEN [key |-> <<>>, delim |-> "@", err |-> "nil", pos |-> r1.pos - 1, line |-> line]
    ELSE parseKeyName(r, r1.pos - 1, line, <<>>, FALSE)

\* Scanner.parseKey: the next key of the record and its delimiter.
parseKey(r, pos, line) == keyRune(r, line, readRune(r, pos))

\* One turn of the loop of Scanner.quoteValue, r1 being the rune read.
RECURSIVE quoteValue(_, _, _, _, _, _, _)
\* Mutant of quoteRune: the end of the input inside the value is an error.
quoteRuneErrAtEOF(r, line, b, first, space, ln, r1) ==
    IF r1.err # "nil"
    THEN [value |-> <<>>, err |-> r1.err, pos |-> r1.pos, line |-> line]
    ELSE IF r1.ch = "\n"
    THEN quoteValue(r, r1.pos, line + 1, b, first,
                    IF ~first THEN FALSE ELSE space, IF ~first THEN TRUE ELSE ln)
    ELSE IF IsSpace(r1.ch)
    THEN quoteValue(r, r1.pos, line, b, first,
                    IF ~first /\ ~ln THEN TRUE ELSE space, ln)
    ELSE IF r1.ch = "\""
    THEN [value |-> b, err |-> "nil", pos |-> r1.pos, line |-> line]
    ELSE LET r2 == IF r1.ch = "\\" THEN readRune(r, r1.pos) ELSE r1 IN
         IF r2.err # "nil"
         THEN quoteValue(r, r2.pos, line, b, first, space, ln)
         ELSE quoteValue(r, r2.pos, line,
                         (IF ln THEN Append(b, "\n")
                          ELSE IF space THEN Append(b, " ")
                          ELSE b) \o <<r2.ch>>,
                         FALSE, FALSE, FALSE)

\* Mutant of quoteRune: a newline is white space like any other.
quoteRuneLineAsSpace(r, line, b, first, space, ln, r1) ==
    IF r1.err # "nil"
    THEN [value |-> b, err |-> IF Len(b) > 0 THEN "nil" ELSE r1.err,
          pos |-> r1.pos, line |-> line]
    ELSE IF IsSpace(r1.ch)
    THEN quoteValue(r, r1.pos, IF r1.ch = "\n" THEN line + 1 ELSE line, b, first,
                    IF ~first /\ ~ln THEN TRUE ELSE space, ln)
    ELSE IF r1.ch = "\""
    THEN [value |-> b, err |-> "nil", pos |-> r1.pos, line |-> line]
    ELSE LET r2 == IF r1.ch = "\\" THEN readRune(r, r1.pos) ELSE r1 IN
         IF r2.err # "nil"
         THEN quoteValue(r, r2.pos, line, b, first, space, ln)
         ELSE quoteValue(r, r2.pos, line,
                         (IF ln THEN Append(b, "\n")
                          ELSE IF space THEN Append(b, " ")
                          ELSE b) \o <<r2.ch>>,
                         FALSE, FALSE, FALSE)

\* Mutant of quoteRune: a backslash is a character like any other.
quoteRuneNoEscape(r, line, b, first, space, ln, r1) ==
    IF r1.err # "nil"
    THEN [value |-> b, err |-> IF Len(b) > 0 THEN "nil" ELSE r1.err,
          pos |-> r1.pos, line |-> line]
    ELSE IF r1.ch = "\n"
    THEN quoteValue(r, r1.pos, line + 1, b, first,
                    IF ~first THEN FALSE ELSE space, IF ~first THEN TRUE ELSE ln)
    ELSE IF IsSpace(r1.ch)
    THEN quoteValue(r, r1.pos, line, b, first,
                    IF ~first /\ ~ln THEN TRUE ELSE space, ln)
    ELSE IF r1.ch = "\""
    THEN [value |-> b, err |-> "nil", pos |-> r1.pos, line |-> line]
    ELSE quoteValue(r, r1.pos, line,
                    (IF ln THEN Append(b, "\n")
                     ELSE IF space THEN Append(b, " ")
                     ELSE b) \o <<r1.ch>>,
                    FALSE, FALSE, FALSE)

quoteRune(r, line, b, first, space, ln, r1) ==
    IF r1.err # "nil"
    THEN [value |-> b, err |-> IF Len(b) > 0 THEN "nil" ELSE r1.err,
          pos |-> r1.pos, line |-> line]
    ELSE IF r1.ch = "\n"
    THEN quoteValue(r, r1.pos, line + 1, b, first,
                    IF ~first THEN FALSE ELSE space, IF ~first THEN TRUE ELSE ln)
    ELSE IF IsSpace(r1.ch)
    THEN quoteValue(r, r1.pos, line, b, first,
                    IF ~first /\ ~ln THEN TRUE ELSE space, ln)
    ELSE IF r1.ch = "\""
    THEN [value |-> b, err |-> "nil", pos |-> r1.pos, line |-> line]
    ELSE LET r2 == IF r1.ch = "\\" THEN readRune(r, r1.pos) ELSE r1 IN
         IF r2.err # "nil"
         THEN quoteValue(r, r2.pos, line, b, first, space, ln)
         ELSE quoteValue(r, r2.pos, line,
                         (IF ln THEN Append(b, "\n")
                          ELSE IF space THEN Append(b, " ")
                          ELSE b) \o <<r2.ch>>,
                         FALSE, FALSE, FALSE)

\* Scanner.quoteValue: a quoted, possibly multi-line value; b is the scratch
\* buffer, first, space and ln are the locals first, space and line.
quoteValue(r, pos, line, b, first, space, ln) ==
    quoteRune(r, line, b, first, space, ln, readRune(r, pos))

\* One turn of the loop of Scanner.parseValue, r1 being the rune read, and
\* the ReadString that follows the loop.
RECURSIVE parseValue(_, _, _)
valueRune(r, line, r1) ==
    IF r1.err # "nil"
    THEN [value |-> <<>>, err |-> r1.err, pos |-> r1.pos, line |-> line]
    ELSE IF r1.ch = "\n"
    THEN [value |-> <<>>, err |-> "nil", pos |-> r1.pos, line |-> line + 1]
    ELSE IF IsSpace(r1.ch) THEN parseValue(r, r1.pos, line)
    ELSE IF r1.ch = "\""
    THEN quoteValue(r, r1.pos, line, <<>>, TRUE, FALSE, FALSE)
    ELSE LET str == ReadString(r, r1.pos - 1, "\n") IN
         [value |-> str.str, err |-> str.err, pos |-> str.pos, line |-> line]

\* Scanner.parseValue: the next value of the record.
parseValue(r, pos, line) == valueRune(r, line, readRune(r, pos))

\* The second loop of Scanner.parseRecord after parseValue returned v for
\* the key k.
RECURSIVE parseData(_, _, _, _)
\* Mutant of dataValue: the text read before the error is stored.
dataValueKeepsPartial(r, rc, k, v) ==
    IF v.err # "nil"
    THEN [rec |-> Set(rc, k.key, v.value), err |-> "nil", pos |-> v.pos, line |-> v.line]
    ELSE parseData(r, v.pos, v.line, Set(rc, k.key, v.value))

dataValue(r, rc, k, v) ==
    IF v.err # "nil"
    THEN [rec |-> rc, err |-> "nil", pos |-> v.pos, line |-> v.line]
    ELSE parseData(r, v.pos, v.line, Set(rc, k.key, v.value))

\* The second loop of Scanner.parseRecord after parseKey returned k.
dataKey(r, rc, k) ==
    IF k.err # "nil"
    THEN [rec |-> rc, err |-> "nil", pos |-> k.pos, line |-> k.line]
    ELSE IF k.delim = "@"
    THEN [rec |-> rc, err |-> "nil", pos |-> k.pos, line |-> k.line]
    ELSE IF k.delim = "\n" THEN parseData(r, k.pos, k.line, rc)
    ELSE dataValue(r, rc, k, parseValue(r, k.pos, k.line))

\* The second loop of Scanner.parseRecord: the fields of the record rc.
parseData(r, pos, line, rc) == dataKey(r, rc, parseKey(r, pos, line))

\* Scanner.parseRecord: the header loop, then the fields.
RECURSIVE parseRecord(_, _, _)
parseRecord(r, pos, line) ==
    LET l    == ReadString(r, pos, "\n")
        text == TrimSpace(l.str)
        body == Tail(text)
        i    == Index(body, "=")
    IN  IF l.err # "nil"
        THEN [rec |-> NilRecord, err |-> l.err, pos |-> l.pos, line |-> line + 1]
        ELSE IF text = <<>> THEN parseRecord(r, l.pos, line + 1)
        ELSE IF text[1] = "#" THEN parseRecord(r, l.pos, line + 1)
        ELSE IF text[1] # "@" THEN parseRecord(r, l.pos, line + 1)
        ELSE IF i < 1 THEN parseRecord(r, l.pos, line + 1)
        ELSE IF NewRecord(SubSeq(body, 1, i), SubSeq(body, i + 2, Len(body))) = NilRecord
        THEN parseRecord(r, l.pos, line + 1)
        ELSE parseData(r, l.pos, line + 1,
                       NewRecord(SubSeq(body, 1, i), SubSeq(body, i + 2, Len(body))))

\* NewScanner(r).
NewScanner(r) ==
    [r |-> r, pos |-> 1, closed |-> FALSE, err |-> "nil", line |-> 0,
     rec |-> NilRecord]

\* One turn of the loop of Scanner.Scan, p being what parseRecord returned.
RECURSIVE Scan(_)
\* Mutant of scanRecord: the end of the input is kept as the error.
scanRecordKeepsEOF(sc, p) ==
    IF p.err # "nil"
    THEN [s  |-> [sc EXCEPT !.closed = TRUE, !.pos = p.pos, !.line = p.line,
                            !.err = p.err],
          ok |-> FALSE]
    ELSE IF Cardinality(DOMAIN p.rec.data) = 0
    THEN Scan([sc EXCEPT !.pos = p.pos, !.line = p.line])
    ELSE [s  |-> [sc EXCEPT !.pos = p.pos, !.line = p.line, !.rec = p.rec],
          ok |-> TRUE]

\* Mutant of scanRecord: a record without fields is yielded too.
scanRecordKeepsEmpty(sc, p) ==
    IF p.err # "nil"
    THEN [s  |-> [sc EXCEPT !.closed = TRUE, !.pos = p.pos, !.line = p.line,
                            !.err = IF p.err = "EOF" THEN "nil" ELSE p.err],
          ok |-> FALSE]
    ELSE [s  |-> [sc EXCEPT !.pos = p.pos, !.line = p.line, !.rec = p.rec],
          ok |-> TRUE]

scanRecord(sc, p) ==
    IF p.err # "nil"
    THEN [s  |-> [sc EXCEPT !.closed = TRUE, !.pos = p.pos, !.line = p.line,
                            !.err = IF p.err = "EOF" THEN "nil" ELSE p.err],
          ok |-> FALSE]
    ELSE IF Cardinality(DOMAIN p.rec.data) = 0
    THEN Scan([sc EXCEPT !.pos = p.pos, !.line = p.line])
    ELSE [s  |-> [sc EXCEPT !.pos = p.pos, !.line = p.line, !.rec = p.rec],
          ok |-> TRUE]

\* Mutant of Scan: a closed scanner goes on parsing.
ScanIgnoresClosed(sc) == scanRecord(sc, parseRecord(sc.r, sc.pos, sc.line))

\* Scanner.Scan: the scanner after the call, and the value returned.
Scan(sc) ==
    IF sc.closed THEN [s |-> sc, ok |-> FALSE]
    ELSE scanRecord(sc, parseRecord(sc.r, sc.pos, sc.line))

\* Mutant of Record: the record stays in the scanner.
RecordKeepsRec(sc) ==
    IF sc.rec = NilRecord
    THEN [s |-> sc, rec |-> NilRecord, panic |-> TRUE]
    ELSE [s |-> sc, rec |-> sc.rec, panic |-> FALSE]

\* Scanner.Record: the scanner after the call, the record returned, and
\* whether the call panicked.
Record(sc) ==
    IF sc.rec = NilRecord
    THEN [s |-> sc, rec |-> NilRecord, panic |-> TRUE]
    ELSE [s |-> [sc EXCEPT !.rec = NilRecord], rec |-> sc.rec, panic |-> FALSE]

\* Scanner.Err.
Err(sc) == sc.err

-----------------------------------------------------------------------------
(* Writer (src/writer.go).  The Writer holds a bufio.Writer: text written  *)
(* stays in buf until Flush moves it to the underlying io.Writer, out.     *)

\* NewWriter(w) over an empty sink.
NewWriter == [buf |-> <<>>, out |-> <<>>]

\* bufio.Writer.WriteString.
WriteString(wr, str) == [wr EXCEPT !.buf = @ \o str]

\* The prefix writeField and writeQuoted put before the value: a tab after
\* the colon of a key shorter than shortKey, a space otherwise.
shortKey == 6

KeyPrefix(key) ==
    IF Len(key) < shortKey
    THEN <<"\t">> \o key \o <<":", "\t">>
    ELSE <<"\t">> \o key \o <<":", " ">>

\* The loop of Writer.writeQuoted over the runes of value: the text written;
\* first, space and ln are the locals first, space and line.
RECURSIVE writeRunes(_, _, _, _)
\* Mutant of writeRunes: quotation marks and backslashes are written as they
\* are.
writeRunesNoEscape(value, first, space, ln) ==
    IF value = <<>> THEN <<>>
    ELSE LET r == Head(value) IN
         IF r = "\n"
         THEN writeRunes(Tail(value), first,
                         IF ~first THEN FALSE ELSE space, IF ~first THEN TRUE ELSE ln)
         ELSE IF IsSpace(r)
         THEN writeRunes(Tail(value), first,
                         IF ~first /\ ~ln THEN TRUE ELSE space, ln)
         ELSE (IF ln THEN <<"\n", "\t", "\t">>
               ELSE IF space THEN <<" ">>
               ELSE <<>>)
              \o <<r>>
              \o writeRunes(Tail(value), FALSE, FALSE, FALSE)

\* Mutant of writeRunes: a newline of the value is written as an empty line.
writeRunesBlankLine(value, first, space, ln) ==
    IF value = <<>> THEN <<>>
    ELSE LET r == Head(value) IN
         IF r = "\n"
         THEN writeRunes(Tail(value), first,
                         IF ~first THEN FALSE ELSE space, IF ~first THEN TRUE ELSE ln)
         ELSE IF IsSpace(r)
         THEN writeRunes(Tail(value), first,
                         IF ~first /\ ~ln THEN TRUE ELSE space, ln)
         ELSE (IF ln THEN <<"\n", "\n", "\t", "\t">>
               ELSE IF space THEN <<" ">>
               ELSE <<>>)
              \o (IF r = "\"" THEN <<"\\", "\"">>
                  ELSE IF r = "\\" THEN <<"\\", "\\">>
                  ELSE <<r>>)
              \o writeRunes(Tail(value), FALSE, FALSE, FALSE)

writeRunes(value, first, space, ln) ==
    IF value = <<>> THEN <<>>
    ELSE LET r == Head(value) IN
         IF r = "\n"
         THEN writeRunes(Tail(value), first,
                         IF ~first THEN FALSE ELSE space, IF ~first THEN TRUE ELSE ln)
         ELSE IF IsSpace(r)
         THEN writeRunes(Tail(value), first,
                         IF ~first /\ ~ln THEN TRUE ELSE space, ln)
         ELSE (IF ln THEN <<"\n", "\t", "\t">>
               ELSE IF space THEN <<" ">>
               ELSE <<>>)
              \o (IF r = "\"" THEN <<"\\", "\"">>
                  ELSE IF r = "\\" THEN <<"\\", "\\">>
                  ELSE <<r>>)
              \o writeRunes(Tail(value), FALSE, FALSE, FALSE)

\* Writer.writeQuoted.
writeQuoted(wr, key, value) ==
    WriteString(wr, KeyPrefix(key) \o <<"\"">>
                    \o writeRunes(value, TRUE, FALSE, FALSE)
                    \o <<"\"", "\n">>)

\* Writer.writeField.
writeField(wr, key, value) ==
    IF Contains(value, "\n") THEN writeQuoted(wr, key, value)
    ELSE WriteString(wr, KeyPrefix(key) \o value \o <<"\n">>)

\* The loop of Writer.Write over the sorted keys.
RECURSIVE writeFields(_, _, _)
writeFields(wr, r, keys) ==
    IF keys = <<>> THEN wr
    ELSE IF Get(r, Head(keys)) = <<>> THEN writeFields(wr, r, Tail(keys))
    ELSE writeFields(writeField(wr, Head(keys), Get(r, Head(keys))), r, Tail(keys))

\* Writer.Write.
Write(wr, r) ==
    IF Len(Keys(r)) = 0 THEN wr
    ELSE IF r.id = <<>> \/ r.typ = <<>> THEN wr
    ELSE writeFields(WriteString(wr, <<"@">> \o r.typ \o <<"=">> \o r.id \o <<"\n">>),
                     r, Keys(r))

\* Writer.Flush.
Flush(wr) == [buf |-> <<>>, out |-> wr.out \o wr.buf]

-----------------------------------------------------------------------------
(* Input texts.  An input is the concatenation of at most MaxPieces pieces *)
(* of text; a piece carries, beside its text, what it is meant to be: for  *)
(* a header the normalised type (a) and ID (b) it names, for a field the   *)
(* normalised key (a) and the value (b) it gives.                          *)

MaxPieces == 3

Piece(kind, text, a, b) == [kind |-> kind, text |-> text, a |-> a, b |-> b]

Headers ==
    { Piece("header", <<"@", "t", "=", "i", "\n">>, <<"t">>, <<"i">>),
      Piece("header", <<"@", "A", " ", "b", "=", "B", "\n">>, <<"a", "-", "b">>, <<"B">>) }

BadHeaders ==
    { Piece("badheader", <<"@", "=", "i", "\n">>, <<>>, <<>>),
      Piece("badheader", <<"@", "t", "=", " ", "\n">>, <<>>, <<>>),
      Piece("badheader", <<"@", "t", "\n">>, <<>>, <<>>) }

FieldLines ==
    { Piece("field", <<"k", ":", " ", "v", "\n">>, <<"k">>, <<"v">>),
      Piece("field", <<"k", ":", "x", "\n">>, <<"k">>, <<"x">>),
      Piece("field", <<"\t", "A", ":", "\t", "x", " ", "y", "\n">>, <<"a">>, <<"x", " ", "y">>) }

Ignored ==
    { Piece("comment", <<" ", "#", "k", ":", "v", "\n">>, <<>>, <<>>),
      Piece("blank", <<"\n">>, <<>>, <<>>) }

Malformed ==
    { Piece("novalue", <<"k", ":", " ", "\n">>, <<"k">>, <<>>),
      Piece("nocolon", <<"k", "\n">>, <<>>, <<>>),
      Piece("quoted", <<"k", ":", " ", "\"", "\\", "\"", "a", "\"", "\n">>,
            <<"k">>, <<"\"", "a">>),
      Piece("quoted", <<"a", ":", " ", "\"", "x", "\n", "#", "c", "\n", "y", "\"", "\n">>,
            <<"a">>, <<"x", "\n", "#", "c", "\n", "y">>),
      Piece("openquote", <<"k", ":", " ", "\"", "v">>, <<"k">>, <<"v">>),
      Piece("openvalue", <<"k", ":", " ", "v">>, <<"k">>, <<>>) }

Pieces == Headers \cup BadHeaders \cup FieldLines \cup Ignored \cup Malformed

\* The sequences of at most n elements of S.
SeqsUpTo(S, n) == UNION { [1..k -> S] : k \in 0..n }

\* The text of a sequence of pieces.
RECURSIVE Text(_)
Text(d) == IF d = <<>> THEN <<>> ELSE Head(d).text \o Text(Tail(d))

-----------------------------------------------------------------------------
(* The caller.  It runs the loop of TestRecListWrite: scan the input, take *)
(* each record and write it, flush, then scan what was written.            *)

NilScanner == [isNil |-> TRUE]

InitDoc(D) ==
    /\ doc \in D
    /\ s = NewScanner(Text(doc))
    /\ recs = <<>>
    /\ rec = NilRecord
    /\ calls = <<>>
    /\ w = NewWriter
    /\ s2 = NilScanner
    /\ recs2 = <<>>
    /\ pc = "scan"

Init == InitDoc(SeqsUpTo(Pieces, MaxPieces))

\* for s.Scan() { ... }
CallScan ==
    /\ pc = "scan"
    /\ \E res \in {Scan(s)} :
           /\ s' = res.s
           /\ pc' = IF res.ok THEN "record" ELSE "flush"
    /\ UNCHANGED <<doc, recs, rec, calls, w, s2, recs2>>

\* rec := s.Record(); recs = append(recs, rec)
CallRecord ==
    /\ pc = "record"
    /\ s.rec # NilRecord
    /\ rec' = s.rec
    /\ recs' = Append(recs, s.rec)
    /\ s' = [s EXCEPT !.rec = NilRecord]
    /\ pc' = "write"
    /\ UNCHANGED <<doc, calls, w, s2, recs2>>

\* w.Write(rec)
CallWrite ==
    /\ pc = "write"
    /\ w' = Write(w, rec)
    /\ pc' = "scan"
    /\ UNCHANGED <<doc, s, recs, rec, calls, s2, recs2>>

\* w.Flush(); s = NewScanner(strings.NewReader(out.String()))
CallFlush ==
    /\ pc = "flush"
    /\ \E wr \in {Flush(w)} :
           /\ w' = wr
           /\ s2' = NewScanner(wr.out)
    /\ pc' = "scan2"
    /\ UNCHANGED <<doc, s, recs, rec, calls, recs2>>

\* for s.Scan() { ... } on the second scanner
CallScan2 ==
    /\ pc = "scan2"
    /\ \E res \in {Scan(s2)} :
           /\ s2' = res.s
           /\ pc' = IF res.ok THEN "record2" ELSE "done"
    /\ UNCHANGED <<doc, s, recs, rec, calls, w, recs2>>

\* rec := s.Record() on the second scanner
CallRecord2 ==
    /\ pc = "record2"
    /\ s2.rec # NilRecord
    /\ recs2' = Append(recs2, s2.rec)
    /\ s2' = [s2 EXCEPT !.rec = NilRecord]
    /\ pc' = "scan2"
    /\ UNCHANGED <<doc, s, recs, rec, calls, w>>

Next ==
    \/ CallScan
    \/ CallRecord
    \/ CallWrite
    \/ CallFlush
    \/ CallScan2
    \/ CallRecord2

Spec == Init /\ [][Next]_vars

-----------------------------------------------------------------------------
(* Inputs made of whole lines: headers, field lines with a value, comment  *)
(* lines and blank lines, at most MaxLines of them.                        *)

MaxLines == 4

InitLines == InitDoc(SeqsUpTo(Headers \cup FieldLines \cup Ignored, MaxLines))

SpecLines == InitLines /\ [][Next]_vars

-----------------------------------------------------------------------------
(* A caller that calls Scan and Record in any order on an input of lines.  *)
(* pc is "record" when a Scan returned true since the scanner was made or  *)
(* since the last Record, "scan" when none did, "panic" after a panic; rec *)
(* is the record the last Scan that returned true prepared.                *)

\* s.Scan()
FreeScan ==
    /\ pc \in {"scan", "record"}
    /\ \E res \in {Scan(s)} :
           /\ s' = res.s
           /\ pc' = IF res.ok THEN "record" ELSE pc
           /\ rec' = IF res.ok THEN res.s.rec ELSE rec
    /\ UNCHANGED <<doc, recs, calls, w, s2, recs2>>

\* s.Record()
FreeRecord ==
    /\ pc \in {"scan", "record"}
    /\ \E res \in {Record(s)} :
           /\ s' = res.s
           /\ pc' = IF res.panic THEN "panic" ELSE "scan"
           /\ recs' = IF res.panic THEN recs ELSE Append(recs, res.rec)
    /\ UNCHANGED <<doc, rec, calls, w, s2, recs2>>

NextFree ==
    \/ FreeScan
    \/ FreeRecord

SpecFree == InitLines /\ [][NextFree]_vars

-----------------------------------------------------------------------------
(* Inputs with one header and one field whose value is quoted.  The text   *)
(* between the quotation marks is a sequence of at most MaxToks tokens: a  *)
(* letter, a space, a newline, an escaped quotation mark, an escaped       *)
(* backslash or a bare quotation mark.                                     *)

MaxToks == 4

EscQuote == "\\\""

EscSlash == "\\\\"

Tokens == {"a", "b", " ", "\n", EscQuote, EscSlash, "\""}

\* The characters of a token.
TokText(tok) ==
    IF tok = EscQuote THEN <<"\\", "\"">>
    ELSE IF tok = EscSlash THEN <<"\\", "\\">>
    ELSE <<tok>>

RECURSIVE ToksText(_)
ToksText(toks) ==
    IF toks = <<>> THEN <<>> ELSE TokText(Head(toks)) \o ToksText(Tail(toks))

QuotedField(toks) ==
    Piece("quoted", <<"k", ":", " ", "\"">> \o ToksText(toks) \o <<"\"", "\n">>,
          <<"k">>, toks)

QuotedDocs ==
    { <<Piece("header", <<"@", "t", "=", "i", "\n">>, <<"t">>, <<"i">>), QuotedField(toks)>> :
          toks \in SeqsUpTo(Tokens, MaxToks) }

InitQuoted == InitDoc(QuotedDocs)

SpecQuoted == InitQuoted /\ [][Next]_vars

-----------------------------------------------------------------------------
(* Inputs read from a reader that may fail: the pieces of the input and,   *)
(* at most once, the place where the reader fails.  The caller may go on   *)
(* calling Scan after Scan returned false.                                 *)

Faults == { Piece("fault", <<Fault>>, <<>>, <<>>) }

FaultDocs ==
    { d \in SeqsUpTo(Pieces \cup Faults, MaxPieces) :
          Cardinality({ i \in DOMAIN d : d[i].kind = "fault" }) <= 1 }

InitFault == InitDoc(FaultDocs)

\* s.Scan() once more, after a Scan that returned false
CallScanAgain ==
    /\ pc \in {"flush", "again"}
    /\ \E res \in {Scan(s)} :
           /\ s' = res.s
           /\ pc' = IF res.ok THEN "record" ELSE "again"
    /\ UNCHANGED <<doc, recs, rec, calls, w, s2, recs2>>

NextFault ==
    \/ CallScan
    \/ CallRecord
    \/ CallWrite
    \/ CallFlush
    \/ CallScan2
    \/ CallRecord2
    \/ CallScanAgain

SpecFault == InitFault /\ [][NextFault]_vars

-----------------------------------------------------------------------------
(* The caller's loops run to their end.  The inputs are made of at most    *)
(* MaxLive pieces: a header, a field line, a comment line, an unterminated *)
(* quoted value and the place where the reader fails.                      *)

MaxLive == 4

LivePieces ==
    { Piece("header", <<"@", "t", "=", "i", "\n">>, <<"t">>, <<"i">>),
      Piece("field", <<"k", ":", " ", "v", "\n">>, <<"k">>, <<"v">>),
      Piece("comment", <<" ", "#", "k", ":", "v", "\n">>, <<>>, <<>>),
      Piece("openquote", <<"k", ":", " ", "\"", "v">>, <<"k">>, <<"v">>) }

InitLive == InitDoc(SeqsUpTo(LivePieces \cup Faults, MaxLive))

\* A call of Scan returns, with true or with false.
ScanReturns ==
    /\ pc \in {"scan", "scan2"}
    /\ pc' \in {"record", "flush", "record2", "done"}

\* The caller does not stop in the middle of its loops: a call of Scan,
\* Record, Write or Flush that is due is made, and returns.
SpecLive ==
    /\ InitLive
    /\ [][NextFault]_vars
    /\ WF_pc(ScanReturns)
    /\ WF_vars(CallRecord)
    /\ WF_vars(CallWrite)
    /\ WF_vars(CallFlush)
    /\ WF_vars(CallRecord2)

-----------------------------------------------------------------------------
(* Inputs with one header and one field whose quoted value is not closed:  *)
(* the input ends after at most MaxToks tokens of the value, a letter, a   *)
(* space, a newline, an escaped quotation mark or an escaped space.        *)

EscSpace == "\\ "

OpenTokens == {"a", " ", "\n", EscQuote, EscSpace}

\* The characters of a sequence of such tokens.
RECURSIVE OpenText(_)
OpenText(toks) ==
    IF toks = <<>> THEN <<>>
    ELSE (IF Head(toks) = EscSpace THEN <<"\\", " ">> ELSE TokText(Head(toks)))
             \o OpenText(Tail(toks))

OpenDocs ==
    { <<Piece("header", <<"@", "t", "=", "i", "\n">>, <<"t">>, <<"i">>),
        Piece("openquote", <<"k", ":", " ", "\"">> \o OpenText(toks), <<"k">>, toks)>> :
          toks \in SeqsUpTo(OpenTokens, MaxToks) }

InitOpen == InitDoc(OpenDocs)

SpecOpen == InitOpen /\ [][Next]_vars

-----------------------------------------------------------------------------
(* A caller of the Record API: it builds one record with NewRecord and at  *)
(* most MaxSets calls of Set, writes it, flushes and scans what was        *)
(* written.  A key carries the normal form (norm) and a value the trimmed  *)
(* form (trim) the documentation gives it.                                 *)

MaxSets == 2

Types == { <<"t">>, <<"A", " ", "b">>, <<" ">> }

IDs == { <<"i">>, <<>> }

KeyInputs ==
    { [raw |-> <<"k">>,                          norm |-> <<"k">>],
      [raw |-> <<" ", "K", " ">>,                norm |-> <<"k">>],
      [raw |-> <<"a", " ", "\t", "B">>,          norm |-> <<"a", "-", "b">>],
      [raw |-> <<"a", "b", "c", "a", "b", "c">>, norm |-> <<"a", "b", "c", "a", "b", "c">>],
      [raw |-> <<" ">>,                          norm |-> <<>>] }

ValueInputs ==
    { [raw |-> <<"v">>,                       trim |-> <<"v">>],
      [raw |-> <<" ", "x", " ", "y", "\t">>,  trim |-> <<"x", " ", "y">>],
      [raw |-> <<" ">>,                       trim |-> <<>>],
      [raw |-> <<"a", "\n", "b">>,            trim |-> <<"a", "\n", "b">>],
      [raw |-> <<"a", " ", "\n", "\n", "b">>, trim |-> <<"a", " ", "\n", "\n", "b">>],
      [raw |-> <<"\"", "a">>,                 trim |-> <<"\"", "a">>] }

InitRecord ==
    /\ doc = <<>>
    /\ s = NilScanner
    /\ recs = <<>>
    /\ rec = NilRecord
    /\ calls = <<>>
    /\ w = NewWriter
    /\ s2 = NilScanner
    /\ recs2 = <<>>
    /\ pc = "new"

\* rec := NewRecord(typ, ID)
CallNewRecord ==
    /\ pc = "new"
    /\ \E typ \in Types, ID \in IDs :
           /\ rec' = NewRecord(typ, ID)
           /\ pc' = IF NewRecord(typ, ID) = NilRecord THEN "new" ELSE "set"
    /\ UNCHANGED <<doc, s, recs, calls, w, s2, recs2>>

\* rec.Set(key, value)
CallSet ==
    /\ pc = "set"
    /\ Len(calls) < MaxSets
    /\ \E k \in KeyInputs, v \in ValueInputs :
           /\ rec' = Set(rec, k.raw, v.raw)
           /\ calls' = Append(calls, [key |-> k, value |-> v])
    /\ UNCHANGED <<doc, s, recs, w, s2, recs2, pc>>

\* w.Write(rec) on the record the caller built
CallWriteRec ==
    /\ pc = "set"
    /\ w' = Write(w, rec)
    /\ pc' = "flush"
    /\ UNCHANGED <<doc, s, recs, rec, calls, s2, recs2>>

NextRecord ==
    \/ CallNewRecord
    \/ CallSet
    \/ CallWriteRec
    \/ CallFlush
    \/ CallScan2
    \/ CallRecord2

SpecRecord == InitRecord /\ [][NextRecord]_vars

-----------------------------------------------------------------------------
(* Inputs with carriage returns.  The caller scans the input, then scans   *)
(* the same text with every \n replaced by \r\n.  CRPieces are lines with  *)
(* a \r that no \n follows, and a quoted value with an escaped newline.    *)

CRPieces ==
    { Piece("field", <<"k", ":", " ", "v", "\r", "A", ":", " ", "x", "\n">>,
            <<"k">>, <<"v", "\r", "A", ":", " ", "x">>),
      Piece("field", <<"a", "\r", "b", ":", "v", "\n">>, <<"a", "-", "b">>, <<"v">>),
      Piece("quoted", <<"k", ":", " ", "\"", "a", "\r", "b", "\"", "\n">>,
            <<"k">>, <<"a", " ", "b">>),
      Piece("quoted", <<"k", ":", " ", "\"", "a", "\\", "\n", "b", "\"", "\n">>,
            <<"k">>, <<"a", "\n", "b">>) }

InitCR == InitDoc(SeqsUpTo(Pieces \cup CRPieces, MaxPieces))

\* The text str with every \n replaced by \r\n.
RECURSIVE CRLF(_)
CRLF(str) ==
    IF str = <<>> THEN <<>>
    ELSE (IF Head(str) = "\n" THEN <<"\r", "\n">> ELSE <<Head(str)>>) \o CRLF(Tail(str))

\* s = NewScanner(r) over the input with \r\n line endings
CallScanCRLF ==
    /\ pc = "flush"
    /\ s2' = NewScanner(CRLF(s.r))
    /\ pc' = "scan2"
    /\ UNCHANGED <<doc, s, recs, rec, calls, w, recs2>>

NextCR ==
    \/ CallScan
    \/ CallRecord
    \/ CallWrite
    \/ CallScanCRLF
    \/ CallScan2
    \/ CallRecord2

SpecCR == InitCR /\ [][NextCR]_vars

-----------------------------------------------------------------------------
(* A caller that stores one value under the key k in the record t/i,       *)
(* writes the record, flushes and scans what was written.  The value is a  *)
(* text of at most MaxValue characters: a letter, a quotation mark, a      *)
(* backslash, a space or a newline.                                        *)

MaxValue == 4

ValueRunes == {"a", "\"", "\\", " ", "\n"}

ValueDocs ==
    { <<Piece("value", v, <<"k">>, v)>> : v \in SeqsUpTo(ValueRunes, MaxValue) }

InitValue ==
    /\ doc \in ValueDocs
    /\ s = NilScanner
    /\ recs = <<>>
    /\ rec = NewRecord(<<"t">>, <<"i">>)
    /\ calls = <<>>
    /\ w = NewWriter
    /\ s2 = NilScanner
    /\ recs2 = <<>>
    /\ pc = "value"

\* rec.Set("k", value)
CallSetValue ==
    /\ pc = "value"
    /\ rec' = Set(rec, doc[1].a, doc[1].text)
    /\ pc' = "set"
    /\ UNCHANGED <<doc, s, recs, calls, w, s2, recs2>>

NextValue ==
    \/ CallSetValue
    \/ CallWriteRec
    \/ CallFlush
    \/ CallScan2
    \/ CallRecord2

SpecValue == InitValue /\ [][NextValue]_vars

-----------------------------------------------------------------------------
(* What the format's documentation says of text, stated without the code.  *)

\* The white space collapsing of decoding: leading and trailing white space
\* is dropped and every other run of white space is replaced by one
\* character, a newline when the run holds at least need newlines and a
\* space otherwise.  gap tells whether a run is being read and nls how many
\* newlines it holds so far.
RECURSIVE CollapseBy(_, _, _, _, _)
CollapseBy(str, out, gap, nls, need) ==
    IF str = <<>> THEN out
    ELSE IF Head(str) = "\n" THEN CollapseBy(Tail(str), out, TRUE, nls + 1, need)
    ELSE IF IsSpace(Head(str)) THEN CollapseBy(Tail(str), out, TRUE, nls, need)
    ELSE CollapseBy(Tail(str),
                    (IF out = <<>> \/ ~gap THEN out
                     ELSE IF nls >= need THEN Append(out, "\n")
                     ELSE Append(out, " ")) \o <<Head(str)>>,
                    FALSE, 0, need)

\* Every run of white space that holds a newline stands for a newline.
Collapse(str) == CollapseBy(str, <<>>, FALSE, 0, 1)

\* Only a run of white space that holds a blank line (two newlines) stands
\* for a newline; a single line break stands for a space.
CollapseBlank(str) == CollapseBy(str, <<>>, FALSE, 0, 2)

\* The elements of a finite set of integers in ascending order.
RECURSIVE Ascending(_)
Ascending(S) ==
    IF S = {} THEN <<>>
    ELSE LET m == CHOOSE x \in S : \A y \in S : x <= y
         IN  <<m>> \o Ascending(S \ {m})

\* The greatest element of a non-empty finite set of integers.
Max(S) == CHOOSE x \in S : \A y \in S : y <= x

\* The pieces of d that are whole lines of the format.
LineKinds == {"header", "badheader", "field", "novalue", "nocolon", "comment", "blank"}

LineDoc(d) == \A i \in DOMAIN d : d[i].kind \in LineKinds

\* The lines of d that begin with @, and those among them that are headers.
Starts(d) == { i \in DOMAIN d : d[i].kind \in {"header", "badheader"} }

HeadersOf(d) == { i \in DOMAIN d : d[i].kind = "header" }

\* The @ line the line j stands under, 0 when there is none.
Owner(d, j) ==
    IF \E i \in Starts(d) : i < j THEN Max({ i \in Starts(d) : i < j }) ELSE 0

\* The field lines, with or without a value, under the @ line i.
Under(d, i) ==
    { j \in DOMAIN d : d[j].kind \in {"field", "novalue"} /\ Owner(d, j) = i }

\* The last line under i that names the key k.
LastOn(d, i, k) == Max({ j \in Under(d, i) : d[j].a = k })

\* The keys the lines under the header i give a value, and the record the
\* header and its lines describe.
KeysUnder(d, i) ==
    { d[j].a : j \in { m \in Under(d, i) : d[LastOn(d, i, d[m].a)].kind = "field" } }

RecordUnder(d, i) ==
    [id   |-> d[i].b,
     typ  |-> d[i].a,
     data |-> [k \in KeysUnder(d, i) |-> d[LastOn(d, i, k)].b]]

\* The headers of d that have a field, and the records they describe, in
\* the order of the input.
Yielding(d) == { i \in HeadersOf(d) : KeysUnder(d, i) # {} }

RecordsOf(d) ==
    [n \in 1..Cardinality(Yielding(d)) |-> RecordUnder(d, Ascending(Yielding(d))[n])]

\* An input of well-formed headers, each followed by at least one field line
\* with a value, with blank lines and comment lines between them.
WellFormed(d) ==
    /\ \A i \in DOMAIN d : d[i].kind \in {"header", "field", "comment", "blank"}
    /\ HeadersOf(d) # {}
    /\ \A j \in DOMAIN d : d[j].kind = "field" => Owner(d, j) # 0
    /\ \A i \in HeadersOf(d) : Under(d, i) # {}

-----------------------------------------------------------------------------
(* Claims.                                                                 *)

\* C1 (as stated): a record built with NewRecord and Set that has a type, an
\* ID and at least one field, once written and flushed, is scanned back as
\* exactly one record with the same type and ID and, for every key of the
\* original, the same value up to the white space collapsing of decoding.
C1_RoundTrip ==
    (pc = "done" /\ rec # NilRecord /\ DOMAIN rec.data # {}) =>
        /\ Len(recs2) = 1
        /\ recs2[1].typ = rec.typ
        /\ recs2[1].id = rec.id
        /\ \A k \in DOMAIN rec.data :
               Collapse(Get(recs2[1], k)) = Collapse(Get(rec, k))

\* C2 (as stated): when every record a Scanner yields is written with one
\* Writer and the flushed output is scanned again, the second scan yields as
\* many records, in the same order, each with the same keys and values.
C2_ScanWriteScan ==
    pc = "done" =>
        /\ Len(recs2) = Len(recs)
        /\ \A i \in 1..Len(recs) : recs2[i].data = recs[i].data

\* C3: a well-formed input of lines yields one record per header, in input
\* order, with the header's type and ID and exactly the fields listed under
\* it; when more headers follow a yielded record the scanner stands at the
\* @ of the next header.
C3_OnePerHeader ==
    WellFormed(doc) =>
        /\ Len(recs) <= Cardinality(HeadersOf(doc))
        /\ recs = SubSeq(RecordsOf(doc), 1, Len(recs))
        /\ s.closed => recs = RecordsOf(doc)
        /\ Cardinality(Yielding(doc)) = Cardinality(HeadersOf(doc))
        /\ (pc = "record" /\ Len(recs) + 1 < Cardinality(HeadersOf(doc))) =>
               /\ s.r[s.pos] = "@"
               /\ s.rec = RecordsOf(doc)[Len(recs) + 1]

\* C3 witness: two headers, each followed by its field line, and both
\* records yielded in the order of the input.
C3_Witness ==
    /\ WellFormed(doc)
    /\ Len(doc) = 4
    /\ doc[1].kind = "header" /\ doc[3].kind = "header"
    /\ s.closed
    /\ Len(recs) = 2
    /\ recs[1].typ = <<"a", "-", "b">> /\ recs[1].id = <<"B">>
    /\ recs[2].typ = <<"t">> /\ recs[2].data = (<<"k">> :> <<"x">>)

\* The tokens between the quotation marks of a quoted input, and the value
\* the first yielded record has for the field (empty when none was stored).
Body == doc[2].b

FirstValue == IF recs = <<>> THEN <<>> ELSE Get(recs[1], <<"k">>)

\* A body of letters, spaces and newlines only.
PlainBody == \A i \in DOMAIN Body : Body[i] \in {"a", "b", " ", "\n"}

\* C4 (as stated): in a quoted value a single line break between two
\* characters decodes to one space and only a blank line decodes to a
\* newline.
C4_LineBreakIsSpace ==
    (s.closed /\ PlainBody) => FirstValue = CollapseBlank(Body)

\* C4 (amended): in a quoted value every run of white space between two
\* characters that holds a newline, a single line break as well as a blank
\* line, decodes to exactly one newline, and a run without a newline to
\* exactly one space.
C4_LineBreakIsNewline ==
    (s.closed /\ PlainBody) => FirstValue = Collapse(Body)

\* C4 witness: a single line break and indentation between a and b, decoded
\* to a newline.
C4_Witness ==
    /\ s.closed
    /\ Body = <<"a", "\n", " ", "b">>
    /\ FirstValue = <<"a", "\n", "b">>

\* Text with white space between two newlines at most: an empty line.
BlankLineIn(txt) ==
    \E i, j \in DOMAIN txt :
        /\ i < j
        /\ txt[i] = "\n" /\ txt[j] = "\n"
        /\ \A m \in (i + 1)..(j - 1) : txt[m] \in {" ", "\t"}

\* x occurs in y as a block of consecutive characters.
Infix(x, y) == \E i \in 0..(Len(y) - Len(x)) : SubSeq(y, i + 1, i + Len(x)) = x

\* The characters that stand for the character c inside a quoted block.
QuotedRune(c) ==
    IF c = "\n" THEN <<"\n", "\t", "\t">>
    ELSE IF c = "\"" THEN <<"\\", "\"">>
    ELSE IF c = "\\" THEN <<"\\", "\\">>
    ELSE <<c>>

RECURSIVE QuotedText(_)
QuotedText(str) ==
    IF str = <<>> THEN <<>> ELSE QuotedRune(Head(str)) \o QuotedText(Tail(str))

\* The quoted block of the value v under the key k, sep after the colon.
QuotedBlock(k, sep, v) ==
    <<"\t">> \o k \o <<":", sep, "\"">> \o QuotedText(Collapse(v)) \o <<"\"", "\n">>

\* C5 (as stated): a value with an embedded newline is written as a quoted
\* block with an empty line at the newline.
C5_BlankLine ==
    (pc = "flush" /\ rec # NilRecord) =>
        \A k \in DOMAIN rec.data :
            Contains(rec.data[k], "\n") => BlankLineIn(w.buf)

\* C5 (amended): a value with an embedded newline is written as a quoted
\* block in which each run of white space that holds a newline is one line
\* break followed by two tabs; the output has no empty line.
C5_LineBreakTwoTabs ==
    (pc = "flush" /\ rec # NilRecord) =>
        \A k \in DOMAIN rec.data :
            Contains(rec.data[k], "\n") =>
                /\ \E sep \in {" ", "\t"} : Infix(QuotedBlock(k, sep, rec.data[k]), w.buf)
                /\ ~BlankLineIn(w.buf)

\* C5 witness: a value with a blank line between a and b has been written.
C5_Witness ==
    /\ pc = "flush"
    /\ rec # NilRecord
    /\ Get(rec, <<"k">>) = <<"a", " ", "\n", "\n", "b">>
    /\ Infix(<<"\"", "a", "\n", "\t", "\t", "b", "\"", "\n">>, w.buf)

\* A record with a type, an ID and at least one field.
Filled(rc) == DOMAIN rc.data # {} /\ rc.typ # <<>> /\ rc.id # <<>>

\* C6: every record Scan prepares and Record returns has a type, an ID and
\* at least one field; of an input of lines exactly the headers with a
\* stored field are yielded, each with the fields stored under it.
C6_NoEmptyRecords ==
    /\ \A i \in 1..Len(recs) : Filled(recs[i])
    /\ s.rec # NilRecord => Filled(s.rec)
    /\ (LineDoc(doc) /\ s.closed) => recs = RecordsOf(doc)

\* C6 witness: a header without fields, then a header with a field; only
\* the second is yielded.
C6_Witness ==
    /\ Len(doc) = 3
    /\ doc[1].kind = "header" /\ doc[2].kind = "header" /\ doc[3].kind = "field"
    /\ doc[1].a # doc[2].a
    /\ s.closed
    /\ Len(recs) = 1
    /\ recs[1].typ = doc[2].a

\* The meaning of a token: the character an escape stands for.
Meaning(tok) ==
    IF tok = EscQuote THEN "\"" ELSE IF tok = EscSlash THEN "\\" ELSE tok

\* The tokens before the first bare quotation mark.
BeforeQuote(toks) ==
    IF \E i \in DOMAIN toks : toks[i] = "\""
    THEN SubSeq(toks, 1, Index(toks, "\""))
    ELSE toks

\* C7: in a quoted value a backslash is dropped and the character after it
\* is taken literally, so that \" gives " without ending the value and \\
\* gives one \; the first quotation mark that no backslash precedes ends
\* the value.
C7_Escapes ==
    s.closed =>
        LET toks == Collapse(BeforeQuote(Body))
        IN  FirstValue = [i \in DOMAIN toks |-> Meaning(toks[i])]

\* C7 witness: an escaped quotation mark and an escaped backslash decoded,
\* and the value ended by a bare quotation mark before an a.
C7_Witness ==
    /\ s.closed
    /\ Body = <<EscQuote, EscSlash, "\"", "a">>
    /\ FirstValue = <<"\"", "\\">>

\* The type and ID of each record of a sequence.
Names(rs) == [n \in DOMAIN rs |-> <<rs[n].typ, rs[n].id>>]

\* C8: an @ line with an empty type, an empty ID or no = starts no record:
\* no record without a type or an ID is yielded, no error is reported, and
\* the headers yielded are exactly the valid headers that have fields.
C8_BadHeaderSkipped ==
    (LineDoc(doc) /\ \E i \in DOMAIN doc : doc[i].kind = "badheader") =>
        /\ Err(s) = "nil"
        /\ \A n \in 1..Len(recs) : recs[n].typ # <<>> /\ recs[n].id # <<>>
        /\ Names(recs) = SubSeq(Names(RecordsOf(doc)), 1, Len(recs))
        /\ s.closed => Names(recs) = Names(RecordsOf(doc))

\* C8 witness: a bad @ line, then a valid header with a field, yielded.
C8_Witness ==
    /\ Len(doc) = 3
    /\ doc[1].kind = "badheader" /\ doc[2].kind = "header" /\ doc[3].kind = "field"
    /\ s.closed
    /\ Names(recs) = << <<doc[2].a, doc[2].b>> >>

\* The physical lines of a text, each with its newline.
RECURSIVE LinesFrom(_, _, _)
LinesFrom(str, cur, acc) ==
    IF str = <<>> THEN IF cur = <<>> THEN acc ELSE Append(acc, cur)
    ELSE IF Head(str) = "\n"
    THEN LinesFrom(Tail(str), <<>>, Append(acc, Append(cur, "\n")))
    ELSE LinesFrom(Tail(str), Append(cur, Head(str)), acc)

Lines(str) == LinesFrom(str, <<>>, <<>>)

\* The lines whose first non-space character is #.
CommentLines(ls) ==
    { i \in DOMAIN ls : TrimLeft(ls[i]) # <<>> /\ Head(TrimLeft(ls[i])) = "#" }

\* The text of the lines ls without the line i.
RECURSIVE Without(_, _)
Without(ls, i) ==
    IF ls = <<>> THEN <<>>
    ELSE (IF i = 1 THEN <<>> ELSE Head(ls)) \o Without(Tail(ls), i - 1)

\* The records a fresh Scanner yields: sc after a Scan that returned res.
RECURSIVE ScanFrom(_, _)
ScanNext(res, acc) ==
    IF res.ok
    THEN ScanFrom([res.s EXCEPT !.rec = NilRecord], Append(acc, res.s.rec))
    ELSE acc

ScanFrom(sc, acc) == ScanNext(Scan(sc), acc)

ScanAll(text) == ScanFrom(NewScanner(text), <<>>)

\* C9 (as stated): deleting a line whose first non-space character is #
\* from the input does not change the records the Scanner yields.
C9_CommentsIgnored ==
    s.closed =>
        \A i \in CommentLines(Lines(s.r)) : ScanAll(Without(Lines(s.r), i)) = recs

\* The calls of Set in cs whose key has the normal form n.
CallsOn(cs, n) == SelectSeq(cs, LAMBDA c : c.key.norm = n)

\* The trimmed value of the last Set in cs on the normal form n; empty when
\* n is empty or no Set was made on n.
LastValue(cs, n) ==
    IF n = <<>> \/ CallsOn(cs, n) = <<>> THEN <<>>
    ELSE CallsOn(cs, n)[Len(CallsOn(cs, n))].value.trim

\* C10: after any sequence of Set calls, Get(k) is the trimmed value of the
\* last Set whose key has the normal form of k (empty if there is none or it
\* was blank), and the stored keys are exactly the non-empty normal forms
\* whose last Set was not blank: a Set on an empty normal form stores
\* nothing and a Set leaves every other key as it was.
C10_SetGet ==
    rec # NilRecord =>
        /\ \A k \in KeyInputs : Get(rec, k.raw) = LastValue(calls, k.norm)
        /\ \A k \in KeyInputs : Get(rec, k.norm) = LastValue(calls, k.norm)
        /\ DOMAIN rec.data =
               { k.norm : k \in { j \in KeyInputs : LastValue(calls, j.norm) # <<>> } }

\* C10 witness: two Sets on keys of one normal form, the second value won.
C10_Witness ==
    /\ rec # NilRecord
    /\ Len(calls) = 2
    /\ calls[1].key.raw = <<"k">>
    /\ calls[2].key.raw = <<" ", "K", " ">>
    /\ calls[1].value.trim = <<"v">>
    /\ calls[2].value.trim = <<"x", " ", "y">>
    /\ Get(rec, <<"K">>) = <<"x", " ", "y">>

\* The keys and values a Record may hold: a key is not empty, is lower-case
\* and has no white space; a value is not empty and has no white space at
\* either end.
CleanKey(k) == k # <<>> /\ ToLower(k) = k /\ \A i \in DOMAIN k : ~IsSpace(k[i])

CleanValue(v) == v # <<>> /\ ~IsSpace(v[1]) /\ ~IsSpace(v[Len(v)])

\* ks holds exactly the elements of S, in strictly ascending order.
StrictlySorted(ks, S) ==
    /\ { ks[i] : i \in DOMAIN ks } = S
    /\ \A i \in 1..(Len(ks) - 1) : StrLess(ks[i], ks[i + 1])

CleanRecord(rc) ==
    /\ \A k \in DOMAIN rc.data : CleanKey(k) /\ CleanValue(rc.data[k])
    /\ StrictlySorted(Keys(rc), DOMAIN rc.data)

\* C11: in every state of a Record, after NewRecord and any sequence of Set
\* calls by the caller or by the Scanner, every stored key is non-empty,
\* lower-case and free of white space, every stored value is non-empty and
\* has no white space at either end, and Keys() gives exactly the stored
\* keys in strictly ascending order.
C11_RecordInvariant ==
    /\ rec # NilRecord => CleanRecord(rec)
    /\ s2 # NilScanner /\ s2.rec # NilRecord => CleanRecord(s2.rec)
    /\ \A i \in 1..Len(recs2) : CleanRecord(recs2[i])

\* C11 witness: a Set with an upper-case, spaced key and a padded value, a
\* Set with a blank value on another key, and two keys stored in order.
C11_Witness ==
    /\ rec # NilRecord
    /\ Len(calls) = 2
    /\ calls[1].key.raw = <<"a", " ", "\t", "B">>
    /\ calls[1].value.raw = <<" ", "x", " ", "y", "\t">>
    /\ calls[2].key.raw = <<" ", "K", " ">>
    /\ calls[2].value.raw = <<"v">>
    /\ Keys(rec) = << <<"a", "-", "b">>, <<"k">> >>
    /\ Len(recs2) = 1

\* C12: when the reader fails only with the end of the input, Err() is nil
\* in every state, before scanning, between Scan calls and after Scan
\* returned false, whatever the input holds: a bad header, a field without
\* a value, a stray @ line, an unterminated quoted value.
C12_NoErrorAtEOF ==
    /\ Err(s) = "nil"
    /\ s2 # NilScanner => Err(s2) = "nil"

\* C12 witness: a bad @ line, a header and an unterminated quoted value have
\* been scanned to the end of the input, and a scan of the written text too.
C12_Witness ==
    /\ Len(doc) = 3
    /\ doc[1].kind = "badheader" /\ doc[2].kind = "header" /\ doc[3].kind = "openquote"
    /\ s.closed
    /\ pc = "done"
    /\ s2.closed
    /\ Err(s) = "nil"

\* The reader of sc has reported its fault: a read was made at the place
\* where the reader fails.
FaultReported(sc) ==
    /\ sc.line > 0
    /\ sc.pos <= Len(sc.r)
    /\ sc.r[sc.pos] = Fault

\* C13 (as stated): once the reader has reported a fault other than the end
\* of the input, while a header is sought or while keys and values are read,
\* scanning is aborted for good: the Scan call in progress returns false,
\* Err() is not nil from then on and every later Scan returns false.
C13_FaultAborts ==
    FaultReported(s) =>
        /\ pc # "record"
        /\ s.closed
        /\ Err(s) # "nil"
        /\ Scan(s) = [s |-> s, ok |-> FALSE]

\* C14: on every finite input each Scan call returns, Scan returns true
\* only finitely many times, and once a Scan call returned false every
\* later Scan call returns false and leaves the scanner as it was: nothing
\* more is read and Err() keeps its value.
C14_ScanEnds ==
    /\ (pc = "scan") ~> (pc \in {"record", "flush"})
    /\ <>[](s.closed /\ pc # "record")
    /\ [][s.closed => (s' = s /\ pc' # "record")]_vars

\* C14 witness: Scan returned true twice, then false, and was called once
\* more.
C14_Witness ==
    /\ pc = "again"
    /\ s.closed
    /\ Len(recs) = 2
    /\ s.pos = Len(s.r) + 1

\* The pieces of d that are not field lines with an empty value.
WithoutEmptyValues(d) == SelectSeq(d, LAMBDA p : p.kind # "novalue")

\* C15 (as stated): a field line with an empty value is skipped and leaves
\* the record's fields as they were, a value stored earlier under the same
\* key included: an input of lines yields the records it yields without its
\* field lines with an empty value.
C15_EmptyValueSkipped ==
    (LineDoc(doc) /\ s.closed) => recs = ScanAll(Text(WithoutEmptyValues(doc)))

\* A value with a newline, without white space at either end, whose white
\* space is single spaces and single newlines between other characters.
SingleSpaced(v) ==
    /\ Contains(v, "\n")
    /\ ~IsSpace(v[1]) /\ ~IsSpace(v[Len(v)])
    /\ \A i \in 1..(Len(v) - 1) : ~(IsSpace(v[i]) /\ IsSpace(v[i + 1]))
    /\ \A i \in DOMAIN v : IsSpace(v[i]) => v[i] \in {" ", "\n"}

\* C16: for a value with a newline, without white space at either end and
\* with single spaces and single newlines only, the Writer emits the quoted
\* field with \" and \\ for quotation marks and backslashes and a newline
\* and two tabs at each line break, and the Scanner decodes that text back
\* to exactly the value.
C16_QuotedRoundTrip ==
    (pc = "done" /\ SingleSpaced(doc[1].text)) =>
        /\ w.out = <<"@", "t", "=", "i", "\n", "\t", "k", ":", "\t", "\"">>
                       \o QuotedText(doc[1].text) \o <<"\"", "\n">>
        /\ Len(recs2) = 1
        /\ recs2[1].data = (<<"k">> :> doc[1].text)

\* C16 witness: a value with a quotation mark, a line break and a backslash
\* written and decoded.
C16_Witness ==
    /\ pc = "done"
    /\ doc[1].text = <<"\"", "a", "\n", "\\">>
    /\ Len(recs2) = 1
    /\ Get(recs2[1], <<"k">>) = <<"\"", "a", "\n", "\\">>

\* The field entry of the value v under the key k: the key after a tab, a
\* colon, a tab (a space after a key of shortKey characters or more) and
\* the value, quoted when it holds a newline.
FieldEntry(k, v) ==
    IF Contains(v, "\n")
    THEN QuotedBlock(k, IF Len(k) < shortKey THEN "\t" ELSE " ", v)
    ELSE <<"\t">> \o k \o <<":", IF Len(k) < shortKey THEN "\t" ELSE " ">> \o v \o <<"\n">>

\* The field entries of rc for the keys ks, in the order of ks.
RECURSIVE Entries(_, _)
Entries(rc, ks) ==
    IF ks = <<>> THEN <<>>
    ELSE FieldEntry(Head(ks), rc.data[Head(ks)]) \o Entries(rc, Tail(ks))

\* The stored keys of rc in strictly ascending order.
Ordered(rc) ==
    CHOOSE ks \in [1..Cardinality(DOMAIN rc.data) -> DOMAIN rc.data] :
        StrictlySorted(ks, DOMAIN rc.data)

\* C17: Write emits nothing for a record without fields; for any other
\* record it emits the header @type=id and then exactly one field entry per
\* stored key, in ascending order of the keys, whatever the order of the
\* Set calls.
C17_WriteSorted ==
    (pc = "flush" /\ rec # NilRecord) =>
        w.buf = IF DOMAIN rec.data = {} THEN <<>>
                ELSE <<"@">> \o rec.typ \o <<"=">> \o rec.id \o <<"\n">>
                         \o Entries(rec, Ordered(rec))

\* C17 witness: k was Set before a-b, and a-b is written before k.
C17_Witness ==
    /\ pc = "flush"
    /\ rec # NilRecord
    /\ rec.typ = <<"t">>
    /\ Len(calls) = 2
    /\ calls[1].key.raw = <<"k">> /\ calls[1].value.raw = <<"v">>
    /\ calls[2].key.raw = <<"a", " ", "\t", "B">> /\ calls[2].value.raw = <<"v">>
    /\ w.buf = <<"@", "t", "=", "i", "\n",
                 "\t", "a", "-", "b", ":", "\t", "v", "\n",
                 "\t", "k", ":", "\t", "v", "\n">>

\* A text without carriage return.
NoCR(str) == ~Contains(str, "\r")

\* C18: for an input without carriage return, the input with every \n
\* replaced by \r\n yields the same records; a \r that no \n follows is not
\* a line break: it does not end a value or a key and stands for a space in
\* a key and in a quoted value.
C18_CarriageReturn ==
    /\ (pc = "done" /\ NoCR(s.r)) => recs2 = recs
    /\ (s.closed /\ LineDoc(doc)) => recs = RecordsOf(doc)
    /\ (s.closed /\ Len(doc) = 2 /\ doc[1].kind = "header" /\ doc[2].kind = "quoted") =>
           recs = << [id |-> doc[1].b, typ |-> doc[1].a,
                      data |-> (doc[2].a :> doc[2].b)] >>

\* C18 witness: a header, a comment line and a quoted value of more than
\* one line, scanned again with \r\n line endings.
C18_Witness ==
    /\ pc = "done"
    /\ Len(doc) = 3
    /\ doc[1].kind = "header" /\ doc[2].kind = "comment" /\ doc[3].kind = "quoted"
    /\ Contains(doc[3].b, "\n")
    /\ Contains(s2.r, "\r")
    /\ Len(recs2) = 1
    /\ recs2 = recs

\* The text a sequence of tokens of an unclosed quoted value accumulates:
\* white space collapsed, each escape replaced by the character it stands
\* for.
Accumulated(toks) ==
    [i \in DOMAIN Collapse(toks) |->
         IF Collapse(toks)[i] = EscSpace THEN " " ELSE Meaning(Collapse(toks)[i])]

\* The record t/i with the value v under the key k.
OneField(v) == [id |-> <<"i">>, typ |-> <<"t">>, data |-> (<<"k">> :> v)]

\* C19 (as stated): when the input ends inside a quoted value after at
\* least one character was accumulated, the accumulated text is stored as
\* the field's value, the record is yielded with it and no error is
\* reported.
C19_OpenQuoteStored ==
    (s.closed /\ Accumulated(Body) # <<>>) =>
        /\ recs = <<OneField(Accumulated(Body))>>
        /\ Err(s) = "nil"

\* C19 (amended): when the input ends inside a quoted value after at least
\* one character was accumulated, the accumulated text without the white
\* space at its ends is stored as the field's value and the record is
\* yielded with it; when nothing but white space was accumulated no value
\* is stored; no error is reported.
C19_OpenQuoteTrimmed ==
    (s.closed /\ Accumulated(Body) # <<>>) =>
        /\ recs = IF TrimSpace(Accumulated(Body)) = <<>> THEN <<>>
                  ELSE <<OneField(TrimSpace(Accumulated(Body)))>>
        /\ Err(s) = "nil"

\* C19 witness: the input ends after two lines of an unclosed quoted value
\* and the record is yielded with both.
C19_Witness ==
    /\ s.closed
    /\ Body = <<"a", "\n", EscQuote, " ">>
    /\ recs = <<OneField(<<"a", "\n", "\"">>)>>
    /\ Err(s) = "nil"

\* C20: Record returns the record the most recent Scan that returned true
\* prepared, and returns at most once for each such Scan: a Record call
\* made when no Scan returned true since the scanner was made or since the
\* last Record panics and returns no record.
C20_RecordOnce ==
    [][/\ recs' # recs => (pc = "record" /\ recs' = Append(recs, rec))
       /\ pc = "scan" => recs' = recs
       /\ pc' = "panic" => pc = "scan"
       /\ pc = "record" <=> s.rec # NilRecord]_vars

\* C20 witness: Scan returned true, Record returned the record, and the
\* next Record call panicked.
C20_Witness ==
    /\ pc = "panic"
    /\ Len(recs) = 1
    /\ recs[1] = rec
    /\ s.rec = NilRecord
    /\ ~s.closed

\* The number of newlines in a text.
RECURSIVE Newlines(_)
Newlines(str) ==
    IF str = <<>> THEN 0
    ELSE (IF Head(str) = "\n" THEN 1 ELSE 0) + Newlines(Tail(str))

\* The text the scanner sc has consumed.
Consumed(sc) == SubSeq(sc.r, 1, sc.pos - 1)

\* C21 (as stated): the line counter is incremented exactly once for every
\* newline consumed, in the header loop, in a comment, in a key, in an
\* unquoted value and in a quoted value: when Scan has prepared a record
\* the counter is the number of newlines consumed, and the line attached to
\* a read error is the 1-based number of the physical line being read.
C21_LineCounter ==
    /\ pc = "record" => s.line = Newlines(Consumed(s))
    /\ Err(s) # "nil" => s.line = Newlines(Consumed(s)) + 1

\* The pieces of the input before the last one.
Front(d) == SubSeq(d, 1, Len(d) - 1)

\* The input is made of lines and ends in the middle of an unquoted value.
EndsInValue(d) ==
    /\ d # <<>>
    /\ d[Len(d)].kind = "openvalue"
    /\ LineDoc(Front(d))

\* C22: when the input ends in the middle of an unquoted value, the field
\* is not stored: the records yielded are those of the lines before it, so
\* that its record has only the fields completed before it, or is not
\* yielded when it has no other field; no error is reported.
C22_OpenValueDropped ==
    (EndsInValue(doc) /\ s.closed) =>
        /\ recs = RecordsOf(Front(doc))
        /\ Err(s) = "nil"

\* C22 witness: a header, a field a and the unfinished field k; the record
\* is yielded with a alone.
C22_Witness ==
    /\ EndsInValue(doc)
    /\ Len(doc) = 3
    /\ doc[1].kind = "header" /\ doc[2].kind = "field" /\ doc[2].a = <<"a">>
    /\ s.closed
    /\ Len(recs) = 1
    /\ DOMAIN recs[1].data = {<<"a">>}
    /\ Err(s) = "nil"

=============================================================================
